---- MODULE Spec2Model ----
(***************************************************************************)
(* Model of the requirements validation and parameter-derivation engine of *)
(* the performance-profile MCP server (mcp-server-template):               *)
(*   hardware_validator.py  HardwareValidator                              *)
(*   ppc_generator.py       PPCCommandGenerator                            *)
(*                                                                         *)
(* Python values are modelled as follows.                                  *)
(*   - A dict is a function whose DOMAIN is the set of keys present.       *)
(*   - An Optional value is a sequence: <<>> is None, <<v>> is the value v.*)
(*   - A message (an f-string) is a record [id, n, s]: id is the fixed     *)
(*     text, n the integers formatted into it, s the string formatted      *)
(*     into it ("" when there is none).                                    *)
(*   - A raised exception is the field raised of an operator's result      *)
(*     ("" when the call returns).                                         *)
(***************************************************************************)
EXTENDS Integers, Sequences, FiniteSets, TLC

VARIABLES
    pc,             \* which operation produced the current state
    hardware_info,  \* HardwareValidator.hardware_info / PPCCommandGenerator.hardware_info
    requirements,   \* the requirements dict handed to validate, as it is after the call
    inputs0,        \* the hardware information and the requirements dict before the call
    validation,     \* what validate returned or raised
    workload,       \* the workload_type handed to the generator
    params0,        \* the params dict handed to _adjust_parameters, before the call
    params,         \* the same dict after the call (it is adjusted in place and returned)
    reserved_cpus,  \* what _calculate_reserved_cpus returned
    call,           \* the arguments of the generate_parameters call
    generated,      \* what generate_parameters returned or raised
    _must_gather_data,  \* mcp_server._must_gather_data: None or the cached hardware information
    _must_gather_path,  \* mcp_server._must_gather_path: None or the cached resolved path
    catalog,        \* WorkloadTemplates.TEMPLATES, the class attribute the lookups read
    response,       \* what the most recent tool call of the server returned
    analyzed        \* the hardware information and path of the most recent
                    \* analyze_cluster_hardware call that returned success, if any

vars == <<pc, hardware_info, requirements, inputs0, validation,
          workload, params0, params, reserved_cpus, call, generated,
          _must_gather_data, _must_gather_path, catalog, response, analyzed>>

validator_vars == <<requirements, inputs0, validation>>
generator_vars == <<workload, params0, params, reserved_cpus, call, generated>>
server_vars == <<_must_gather_data, _must_gather_path, catalog, response, analyzed>>

(***************************************************************************)
(* Bounds of the model.                                                    *)
(***************************************************************************)
MaxCpus == 2        \* cpus_per_node ranges over 0..MaxCpus
MaxNuma == 2        \* numa_nodes_per_node ranges over 1..MaxNuma
MaxHeuristicCpus == 64  \* cpus_per_node ranges over 0..MaxHeuristicCpus for the heuristic

(***************************************************************************)
(* Python helpers.                                                         *)
(***************************************************************************)
None == <<>>
Some(v) == <<v>>
EmptyDict == [k \in {} |-> 0]

\* dict.get(k, default)
Get(d, k, default) == IF k \in DOMAIN d THEN d[k] ELSE default

\* d[k] = v
Put(d, k, v) == [x \in (DOMAIN d) \cup {k} |-> IF x = k THEN v ELSE d[x]]

Msg(id, n, s) == [id |-> id, n |-> n, s |-> s]
When(c, m) == IF c THEN <<m>> ELSE <<>>

Max(a, b) == IF a >= b THEN a ELSE b
Min(a, b) == IF a <= b THEN a ELSE b

(***************************************************************************)
(* Strings.  TLC strings are atoms, so the strings the code inspects are   *)
(* given by their characters.                                              *)
(***************************************************************************)
Chars(s) ==
    CASE s = ""     -> <<>>
      [] s = "2M"   -> <<"2", "M">>
      [] s = "1G"   -> <<"1", "G">>
      [] s = "1g"   -> <<"1", "g">>
      [] s = "3M"   -> <<"3", "M">>
      [] s = "64K"  -> <<"6", "4", "K">>
      [] s = "32M"  -> <<"3", "2", "M">>
      [] s = "512M" -> <<"5", "1", "2", "M">>
      [] s = "1T"   -> <<"1", "T">>
      [] s = "G"    -> <<"G">>
      [] s = "8"    -> <<"8">>
      [] s = "64"   -> <<"6", "4">>

\* str.upper(), per character
UpperChar(c) ==
    CASE c = "g" -> "G"
      [] c = "m" -> "M"
      [] c = "k" -> "K"
      [] OTHER   -> c

Upper(cs) == [i \in 1..Len(cs) |-> UpperChar(cs[i])]

\* str.endswith(one character)
EndsWith(cs, c) == Len(cs) > 0 /\ cs[Len(cs)] = c

\* s[:-1]
DropLast(cs) == IF Len(cs) = 0 THEN <<>> ELSE SubSeq(cs, 1, Len(cs) - 1)

Digits == <<"0", "1", "2", "3", "4", "5", "6", "7", "8", "9">>
DigitVal(c) == (CHOOSE i \in 1..10 : Digits[i] = c) - 1
IsDigit(c) == \E i \in 1..10 : Digits[i] = c

RECURSIVE DecimalVal(_)
DecimalVal(cs) ==
    IF Len(cs) = 0 THEN 0
    ELSE 10 * DecimalVal(DropLast(cs)) + DigitVal(cs[Len(cs)])

\* float(text) on the texts of the model: a non-empty run of digits is its
\* value, anything else (here: the empty text) raises ValueError.
FloatOk(cs) == Len(cs) > 0 /\ \A i \in 1..Len(cs) : IsDigit(cs[i])

\* `needle in architecture` for the needles the code uses
Substrings(arch) ==
    CASE arch = "x86_64"  -> {"x86"}
      [] arch = "amd64"   -> {"amd64"}
      [] arch = "aarch64" -> {"aarch64"}
      [] arch = "arm64"   -> {"arm64"}
      [] OTHER            -> {}

In(needle, arch) == needle \in Substrings(arch)

\* A value that is not a str where the code expects one (a null in the node's
\* YAML); `needle in value` and str.join raise TypeError on it.
NotAString == "<None>"
IsStr(v) == v # NotAString

(***************************************************************************)
(* HardwareValidator (hardware_validator.py)                               *)
(***************************************************************************)

\* HardwareValidator.__init__: self.summary
Summary(hi) == Get(hi, "summary", EmptyDict)

\* self.summary.get("architectures", ["unknown"])[0]; IndexError on []
Architectures(summary) == Get(summary, "architectures", <<"unknown">>)

\* Python truthiness of an Optional[str] and of an Optional[int]
TruthyStr(o) == o # None /\ o[1] # ""
TruthyInt(o) == o # None /\ o[1] # 0

\* the fit check `total_required > cpus_per_node` of _validate_cpu
Fits_inclusive(total_required, cpus_per_node) == ~(total_required >= cpus_per_node)

Fits(total_required, cpus_per_node) == ~(total_required > cpus_per_node)

\* the NUMA check `numa_nodes > 1` and `reserved % numa_nodes != 0`
NumaMisaligned_floorDiv(reserved, numa_nodes) ==
    numa_nodes > 1 /\ reserved \div numa_nodes # 0

NumaMisaligned(reserved, numa_nodes) ==
    numa_nodes > 1 /\ reserved % numa_nodes # 0

_validate_cpu(summary, req) ==
    LET cpus_per_node == Get(summary, "cpus_per_node", 0)
        numa_nodes    == Get(summary, "numa_nodes_per_node", 1)
        ht_enabled    == Get(summary, "hyperthreading_enabled", TRUE)
        reserved      == req.reserved_cpu_count
    IN  IF reserved = None
        THEN [is_valid |-> FALSE,
              errors |-> <<Msg("Reserved CPU count is required", <<>>, "")>>,
              warnings |-> <<>>,
              recommendations |-> <<>>]
        ELSE
        LET r == reserved[1]
            derived == req.isolated_cpu_count = None
            isolated == IF derived THEN cpus_per_node - r
                        ELSE req.isolated_cpu_count[1]
            total_required == isolated + r
            fits == Fits(total_required, cpus_per_node)
        IN  [is_valid |-> fits,
             errors |->
                When(~fits, Msg("Total CPUs required exceeds available CPUs per node",
                                <<total_required, cpus_per_node>>, "")),
             warnings |->
                When(r < 2, Msg("Reserved CPU count is very low", <<>>, ""))
                \o When(NumaMisaligned(r, numa_nodes),
                        Msg("Reserved CPUs not evenly divisible by NUMA nodes",
                            <<r, numa_nodes>>, "")),
             recommendations |->
                When(r < 2, Msg("Consider reserving at least 2-4 CPUs", <<>>, ""))
                \o When(derived, Msg("Isolated CPU count not specified. Will use",
                                     <<isolated>>, ""))
                \o When(numa_nodes > 1,
                        Msg("Consider allocating CPUs aligned to NUMA boundaries",
                            <<numa_nodes>>, ""))
                \o When(ht_enabled, Msg("Hyperthreading is enabled", <<>>, ""))]

_validate_rt_kernel(summary, req) ==
    LET archs == Architectures(summary)
    IN  IF Len(archs) = 0
        THEN [raised |-> "IndexError", result |-> <<>>]
        ELSE IF req.enable_rt_kernel /\ ~IsStr(archs[1])
        THEN [raised |-> "TypeError", result |-> <<>>]
        ELSE
        LET architecture == archs[1]
            enable_rt == req.enable_rt_kernel
            workload_type == req.workload_type
        IN  [raised |-> "",
             result |->
               [is_valid |-> TRUE,
                warnings |->
                   When(enable_rt /\ (In("aarch64", architecture) \/ In("arm64", architecture)),
                        Msg("Real-time kernel on ARM architecture may have limited support",
                            <<>>, ""))
                   \o When(enable_rt /\ workload_type \in {"database", "ai-inference"},
                           Msg("RT kernel typically not required for", <<>>, workload_type)),
                recommendations |->
                   When(enable_rt, Msg("Real-time kernel will be enabled", <<>>, ""))
                   \o When(~enable_rt /\ workload_type \in {"5g-ran", "telco-vnf"},
                           Msg("RT kernel is highly recommended for", <<>>, workload_type))]]

valid_sizes_x86 == {"2M", "1G"}
valid_sizes_arm == {"64K", "2M", "32M", "512M", "1G"}

\* _hugepage_to_gb: the result in units of 1/2^20 GB (so that K sizes stay
\* integral); raised is ValueError when float() rejects the number part.
_hugepage_to_gb(size) ==
    LET size_upper == Upper(Chars(size))
        num == DropLast(size_upper)
        scale == CASE EndsWith(size_upper, "G") -> 1024 * 1024
                   [] EndsWith(size_upper, "M") -> 1024
                   [] EndsWith(size_upper, "K") -> 1
                   [] OTHER -> 0
    IN  IF scale = 0 THEN [raised |-> "", gb |-> 0]
        ELSE IF ~FloatOk(num) THEN [raised |-> "ValueError", gb |-> 0]
        ELSE [raised |-> "", gb |-> DecimalVal(num) * scale]

\* f"{total_gb:.2f}": the hundredths of a GB printed, rounding half to even
Format2f(units) ==
    LET q == (units * 100) \div (1024 * 1024)
        rem == (units * 100) % (1024 * 1024)
        half == 512 * 1024
    IN  IF rem > half \/ (rem = half /\ q % 2 = 1) THEN q + 1 ELSE q

_validate_hugepages(summary, req) ==
    LET archs == Architectures(summary)
        hugepage_size == req.hugepages_size
        hugepage_count == req.hugepages_count
        enable_dpdk == req.enable_dpdk
    IN  IF Len(archs) = 0
        THEN [raised |-> "IndexError", result |-> <<>>]
        ELSE IF TruthyStr(hugepage_size) /\ ~IsStr(archs[1])
        THEN [raised |-> "TypeError", result |-> <<>>]
        ELSE
        LET architecture == archs[1]
            given == TruthyStr(hugepage_size)
            is_x86 == In("x86", architecture) \/ In("amd64", architecture)
            is_arm == ~is_x86 /\ (In("aarch64", architecture) \/ In("arm64", architecture))
            bad_x86 == given /\ is_x86 /\ hugepage_size[1] \notin valid_sizes_x86
            bad_arm == given /\ is_arm /\ hugepage_size[1] \notin valid_sizes_arm
            counted == given /\ TruthyInt(hugepage_count)
            size_gb == IF counted THEN _hugepage_to_gb(hugepage_size[1])
                       ELSE [raised |-> "", gb |-> 0]
        IN  IF size_gb.raised # ""
            THEN [raised |-> size_gb.raised, result |-> <<>>]
            ELSE
            [raised |-> "",
             result |->
               [is_valid |-> ~(bad_x86 \/ bad_arm),
                errors |->
                   When(bad_x86, Msg("Invalid hugepage size for x86_64", <<>>, hugepage_size[1]))
                   \o When(bad_arm, Msg("Invalid hugepage size for aarch64", <<>>, hugepage_size[1])),
                recommendations |->
                   When(counted, Msg("Hugepages will reserve GB of memory",
                                     <<Format2f(size_gb.gb * hugepage_count[1])>>, ""))
                   \o When(given /\ ~counted, Msg("Hugepage count not specified", <<>>, ""))
                   \o When(enable_dpdk /\ ~given,
                           Msg("DPDK workloads typically require hugepages", <<>>, ""))]]

_validate_power_mode(req) ==
    LET power_mode == req.power_mode
        per_pod_pm == req.per_pod_power_management
    IN  [warnings |->
            When(power_mode \in {"low-latency", "ultra-low-latency"},
                 Msg("Power mode will increase power consumption significantly",
                     <<>>, power_mode))
            \o When(per_pod_pm /\ power_mode # "default",
                    Msg("Per-pod power management will be disabled", <<>>, "")),
         recommendations |-> <<>>]

StatusValid == "Configuration is valid and feasible"
StatusInvalid == "Configuration has issues that must be addressed"

\* validate: which sub-checks clear the aggregate is_valid
AggregateValid_hugepages(cpu_validation, hugepages_validation) ==
    cpu_validation.is_valid /\ hugepages_validation.is_valid

AggregateValid(cpu_validation, hugepages_validation) ==
    cpu_validation.is_valid

\* validate: what is appended to the aggregate errors
AggregateErrors_hugepages(cpu_validation, hugepages_validation) ==
    (IF ~cpu_validation.is_valid THEN cpu_validation.errors ELSE <<>>)
    \o (IF ~hugepages_validation.is_valid THEN hugepages_validation.errors ELSE <<>>)

AggregateErrors(cpu_validation, hugepages_validation) ==
    IF ~cpu_validation.is_valid THEN cpu_validation.errors ELSE <<>>

\* HardwareValidator.validate, the aggregation of the four sub-results
Aggregate(cpu_validation, rt_validation, hugepages_validation, power_validation) ==
    LET is_valid == AggregateValid(cpu_validation, hugepages_validation)
    IN  [is_valid |-> is_valid,
         errors |-> AggregateErrors(cpu_validation, hugepages_validation),
         warnings |->
            cpu_validation.warnings
            \o rt_validation.warnings
            \o (IF ~hugepages_validation.is_valid
                THEN hugepages_validation.errors ELSE <<>>)
            \o power_validation.warnings,
         recommendations |->
            cpu_validation.recommendations
            \o rt_validation.recommendations
            \o hugepages_validation.recommendations,
         detailed_checks |->
            [cpu |-> cpu_validation,
             rt_kernel |-> rt_validation,
             hugepages |-> hugepages_validation,
             power_mode |-> power_validation],
         overall_status |-> IF is_valid THEN StatusValid ELSE StatusInvalid]

\* HardwareValidator.validate: the four sub-checks in order, then their
\* aggregation.  An exception of a sub-check propagates to the caller.
validate(summary, req) ==
    LET cpu_validation == _validate_cpu(summary, req)
        rt == _validate_rt_kernel(summary, req)
        hp == _validate_hugepages(summary, req)
        power_validation == _validate_power_mode(req)
    IN  IF rt.raised # "" THEN [raised |-> rt.raised, report |-> <<>>]
        ELSE IF hp.raised # "" THEN [raised |-> hp.raised, report |-> <<>>]
        ELSE [raised |-> "",
              report |-> Aggregate(cpu_validation, rt.result, hp.result, power_validation)]

\* The requirements dict after validate: the sub-checks read it with
\* requirements.get and assign to none of its keys; the derived isolated
\* count lives in a local.
requirements_after_validate_writeBack(summary, req) ==
    IF req.reserved_cpu_count # None /\ req.isolated_cpu_count = None
    THEN [req EXCEPT !.isolated_cpu_count =
             Some(Get(summary, "cpus_per_node", 0) - req.reserved_cpu_count[1])]
    ELSE req

requirements_after_validate(summary, req) == req

(***************************************************************************)
(* WorkloadTemplates (workload_templates.py).  A template is given by its  *)
(* default_config; its name, description, recommended_hugepages and        *)
(* use_cases are texts that no decision reads.                             *)
(***************************************************************************)
Template(rt, ht, dpdk, power, topology, split, per_pod) ==
    [default_config |->
        [enable_rt_kernel |-> rt,
         disable_ht |-> ht,
         enable_dpdk |-> dpdk,
         power_mode |-> power,
         topology_policy |-> topology,
         split_reserved_across_numa |-> split,
         per_pod_power_management |-> per_pod]]

TEMPLATES_perPodHpc ==
    [t \in {"5g-ran", "telco-vnf", "database", "ai-inference", "hpc",
            "low-latency-trading", "media-processing"} |->
        CASE t = "5g-ran" ->
                Template(TRUE, TRUE, TRUE, "ultra-low-latency", "single-numa-node", TRUE, FALSE)
          [] t = "telco-vnf" ->
                Template(TRUE, FALSE, TRUE, "low-latency", "single-numa-node", TRUE, FALSE)
          [] t = "database" ->
                Template(FALSE, FALSE, FALSE, "default", "restricted", TRUE, FALSE)
          [] t = "ai-inference" ->
                Template(FALSE, FALSE, FALSE, "low-latency", "single-numa-node", TRUE, FALSE)
          [] t = "hpc" ->
                Template(FALSE, FALSE, FALSE, "low-latency", "single-numa-node", TRUE, TRUE)
          [] t = "low-latency-trading" ->
                Template(TRUE, TRUE, TRUE, "ultra-low-latency", "single-numa-node", TRUE, FALSE)
          [] t = "media-processing" ->
                Template(FALSE, FALSE, FALSE, "default", "restricted", TRUE, TRUE)]

TEMPLATES ==
    [t \in {"5g-ran", "telco-vnf", "database", "ai-inference", "hpc",
            "low-latency-trading", "media-processing"} |->
        CASE t = "5g-ran" ->
                Template(TRUE, TRUE, TRUE, "ultra-low-latency", "single-numa-node", TRUE, FALSE)
          [] t = "telco-vnf" ->
                Template(TRUE, FALSE, TRUE, "low-latency", "single-numa-node", TRUE, FALSE)
          [] t = "database" ->
                Template(FALSE, FALSE, FALSE, "default", "restricted", TRUE, FALSE)
          [] t = "ai-inference" ->
                Template(FALSE, FALSE, FALSE, "low-latency", "single-numa-node", TRUE, FALSE)
          [] t = "hpc" ->
                Template(FALSE, FALSE, FALSE, "low-latency", "single-numa-node", TRUE, FALSE)
          [] t = "low-latency-trading" ->
                Template(TRUE, TRUE, TRUE, "ultra-low-latency", "single-numa-node", TRUE, FALSE)
          [] t = "media-processing" ->
                Template(FALSE, FALSE, FALSE, "default", "restricted", TRUE, TRUE)]

\* cls.TEMPLATES.get(workload_type)
get_template_fallback(workload_type) ==
    IF workload_type \in DOMAIN TEMPLATES
    THEN Some(TEMPLATES[workload_type]) ELSE Some(TEMPLATES["database"])

get_template(workload_type) ==
    IF workload_type \in DOMAIN TEMPLATES THEN Some(TEMPLATES[workload_type]) ELSE None

(***************************************************************************)
(* Inputs.                                                                 *)
(***************************************************************************)
\* MustGatherParser._generate_summary when no node was found
NoData == [k \in {"error"} |-> "No nodes found"]

ArchitectureLists == {<<>>, <<"x86_64">>, <<"aarch64">>, <<"s390x">>}

Summaries ==
    {NoData}
    \cup [cpus_per_node : 0..MaxCpus,
          numa_nodes_per_node : 1..MaxNuma,
          hyperthreading_enabled : BOOLEAN,
          architectures : ArchitectureLists]

HardwareInfos == {EmptyDict} \cup {[summary |-> s] : s \in Summaries}

ValidatedWorkloads == {"5g-ran", "database", "custom"}
PowerModes == {"default", "low-latency", "ultra-low-latency"}
HugepageSizes == {"", "2M", "64K", "3M", "G", "1T"}

OptCpu == {None} \cup {Some(n) : n \in 0..(MaxCpus + 1)}
OptSize == {None} \cup {Some(z) : z \in HugepageSizes}
OptCount == {None, Some(0), Some(2)}

\* Requests that range over the two CPU counts, with a few settings of the
\* other inputs
CpuRequirements ==
    [workload_type : ValidatedWorkloads,
     isolated_cpu_count : OptCpu,
     reserved_cpu_count : OptCpu,
     enable_rt_kernel : BOOLEAN,
     enable_dpdk : {FALSE},
     hugepages_size : {None, Some("3M")},
     hugepages_count : {None},
     power_mode : {"default", "low-latency"},
     per_pod_power_management : {FALSE}]

\* Requests that range over the other inputs, with a few settings of the two
\* CPU counts: reserved missing, a request that fits, one that does not
SoftRequirements ==
    [workload_type : ValidatedWorkloads,
     isolated_cpu_count : {None, Some(MaxCpus + 1)},
     reserved_cpu_count : {None, Some(1)},
     enable_rt_kernel : BOOLEAN,
     enable_dpdk : BOOLEAN,
     hugepages_size : OptSize,
     hugepages_count : OptCount,
     power_mode : PowerModes,
     per_pod_power_management : BOOLEAN]

Requirements == CpuRequirements \cup SoftRequirements

\* The mock hardware of tests/test_local.py and the requests around its
\* test cases (keys a test leaves out read as their defaults).
TestCpus == 48
TestSummary ==
    [cpus_per_node |-> TestCpus,
     numa_nodes_per_node |-> 2,
     hyperthreading_enabled |-> TRUE,
     architectures |-> <<"amd64">>]

TestHardware == [summary |-> TestSummary]

TestWorkloads == {"5g-ran", "telco-vnf", "database", "ai-inference", "custom"}

TestRequirements ==
    [workload_type : TestWorkloads,
     isolated_cpu_count : {None},
     reserved_cpu_count : {None} \cup {Some(n) : n \in 0..(TestCpus + 2)},
     enable_rt_kernel : BOOLEAN,
     enable_dpdk : BOOLEAN,
     hugepages_size : {None},
     hugepages_count : {None},
     power_mode : PowerModes,
     per_pod_power_management : {FALSE}]

NoCall == [raised |-> "", report |-> <<>>]
NoParams == [raised |-> "", params |-> EmptyDict]
NoResponse == [tool |-> "", success |-> TRUE]

(***************************************************************************)
(* The validator as a state machine: a validator is constructed on some    *)
(* hardware information and validate is called once on some request.       *)
(***************************************************************************)
Init ==
    /\ pc = "init"
    /\ hardware_info = EmptyDict
    /\ requirements = <<>>
    /\ inputs0 = <<>>
    /\ validation = NoCall
    /\ workload = ""
    /\ params0 = EmptyDict
    /\ params = EmptyDict
    /\ reserved_cpus = 0
    /\ call = <<>>
    /\ generated = NoParams
    /\ _must_gather_data = None
    /\ _must_gather_path = None
    /\ catalog = TEMPLATES
    /\ response = NoResponse
    /\ analyzed = None

Validate ==
    /\ pc = "init"
    /\ \E hi \in HardwareInfos, req \in Requirements :
        /\ pc' = "validate"
        /\ inputs0' = [hardware_info |-> hi, requirements |-> req]
        /\ hardware_info' = hi
        /\ requirements' = requirements_after_validate(Summary(hi), req)
        /\ validation' = validate(Summary(hi), req)
        /\ UNCHANGED generator_vars
        /\ UNCHANGED server_vars

\* test_hardware_validator: validate on the mock hardware
ValidateTest ==
    /\ pc = "init"
    /\ \E req \in TestRequirements :
        /\ pc' = "validate"
        /\ inputs0' = [hardware_info |-> TestHardware, requirements |-> req]
        /\ hardware_info' = TestHardware
        /\ requirements' = requirements_after_validate(Summary(TestHardware), req)
        /\ validation' = validate(Summary(TestHardware), req)
        /\ UNCHANGED generator_vars
        /\ UNCHANGED server_vars

NextValidate == ValidateTest \/ Validate

SpecValidate == Init /\ [][NextValidate]_vars

(***************************************************************************)
(* Properties of validate.                                                 *)
(***************************************************************************)
Called == pc = "validate"
Returned == Called /\ validation.raised = ""
Report == validation.report
Checks == validation.report.detailed_checks

CpusPerNode == Get(Summary(hardware_info), "cpus_per_node", 0)
NumaNodes == Get(Summary(hardware_info), "numa_nodes_per_node", 1)

Contains(seq, m) == \E i \in 1..Len(seq) : seq[i] = m
HasId(seq, id) == \E i \in 1..Len(seq) : seq[i].id = id

SizingError == "Total CPUs required exceeds available CPUs per node"
RequiredError == Msg("Reserved CPU count is required", <<>>, "")

\* C1: whenever isolated_cpu_count is absent and reserved_cpu_count >=
\* cpus_per_node, the returned report has is_valid = false and a CPU sizing
\* error among its errors.
C1_ReservedAtCapacityIsInvalid ==
    (/\ Returned
     /\ requirements.isolated_cpu_count = None
     /\ requirements.reserved_cpu_count # None
     /\ requirements.reserved_cpu_count[1] >= CpusPerNode)
    => (Report.is_valid = FALSE /\ HasId(Report.errors, SizingError))

\* C2: on the mock hardware (48 CPUs, 2 NUMA nodes, hyperthreading), the
\* request {workload_type = database, reserved_cpu_count = 46} without an
\* isolated count is invalid with an error that names 46 and 48.
C2_Reserved46Of48IsInvalid ==
    (/\ Called
     /\ hardware_info = TestHardware
     /\ requirements.workload_type = "database"
     /\ requirements.reserved_cpu_count = Some(46)
     /\ requirements.isolated_cpu_count = None)
    => /\ validation.raised = ""
       /\ Report.is_valid = FALSE
       /\ \E i \in 1..Len(Report.errors) :
             /\ \E j \in 1..Len(Report.errors[i].n) : Report.errors[i].n[j] = 46
             /\ \E j \in 1..Len(Report.errors[i].n) : Report.errors[i].n[j] = TestCpus

\* C3 (as claimed): the aggregate is_valid is true only if the CPU sub-check
\* and the huge-pages sub-check are both valid.
C3_ValidOnlyIfCpuAndHugepagesValid ==
    (Returned /\ Report.is_valid)
    => (Checks.cpu.is_valid /\ Checks.hugepages.is_valid)

\* C3 (amended): the aggregate is_valid equals the CPU sub-check's is_valid;
\* the huge-pages sub-check's is_valid has no part in it.
C3_ValidIffCpuValid ==
    Returned => (Report.is_valid <=> Checks.cpu.is_valid)

C3_Witness ==
    /\ Returned
    /\ Report.is_valid
    /\ Checks.cpu.is_valid
    /\ ~Checks.hugepages.is_valid

\* the whitelist the claim gives for the topology's (first) architecture
HasWhitelist(arch) == arch \in {"x86_64", "amd64", "aarch64", "arm64"}
Whitelist(arch) ==
    IF arch \in {"x86_64", "amd64"} THEN {"2M", "1G"}
    ELSE {"64K", "2M", "32M", "512M", "1G"}

SizeOutsideWhitelist ==
    /\ Called
    /\ Len(Architectures(Summary(hardware_info))) > 0
    /\ HasWhitelist(Architectures(Summary(hardware_info))[1])
    /\ TruthyStr(requirements.hugepages_size)
    /\ requirements.hugepages_size[1]
          \notin Whitelist(Architectures(Summary(hardware_info))[1])

C6_MissingReservedShortCircuitsCpuOnly ==
    (Called /\ requirements.reserved_cpu_count = None)
    => /\ validation.raised = ""
       /\ Report.is_valid = FALSE
       /\ Report.errors = <<RequiredError>>
       /\ Checks.cpu.warnings = <<>>
       /\ Checks.cpu.recommendations = <<>>
       /\ Report.warnings =
             Checks.rt_kernel.warnings
             \o Checks.hugepages.errors
             \o Checks.power_mode.warnings
       /\ Report.recommendations =
             Checks.rt_kernel.recommendations
             \o Checks.hugepages.recommendations

\* C7: validate never raises; every call returns a report.
C7_ValidateNeverRaises ==
    Called => validation.raised = ""

\* the request with every input other than the two CPU counts at its default
CpuOnly(req) ==
    [workload_type |-> "custom",
     isolated_cpu_count |-> req.isolated_cpu_count,
     reserved_cpu_count |-> req.reserved_cpu_count,
     enable_rt_kernel |-> FALSE,
     enable_dpdk |-> FALSE,
     hugepages_size |-> None,
     hugepages_count |-> None,
     power_mode |-> "default",
     per_pod_power_management |-> FALSE]

Has(d, k, v) == k \in DOMAIN d /\ d[k] = v

\* bool(params.get(k)) for a flag
Flag(d, k) == k \in DOMAIN d /\ d[k]

\* int(cpus_per_node * 0.1): the double nearest to 0.1 is a little above
\* 1/10, so for a count of CPUs the truncated product is cpus_per_node div 10
IntTenth_round(cpus_per_node) ==
    LET q == cpus_per_node \div 10
        rem == cpus_per_node % 10
    IN  IF rem > 5 \/ (rem = 5 /\ q % 2 = 1) THEN q + 1 ELSE q

IntTenth(cpus_per_node) == cpus_per_node \div 10

\* the upper clamp `cpus_per_node // 4`
Quarter_remainder(cpus_per_node) == cpus_per_node % 4

Quarter(cpus_per_node) == cpus_per_node \div 4

_calculate_reserved_cpus(summary, wl) ==
    LET cpus_per_node == Get(summary, "cpus_per_node", 0)
        numa_nodes == Get(summary, "numa_nodes_per_node", 1)
        base_reserved == Max(2, numa_nodes * 2)
        pre == IF wl \in {"5g-ran", "telco-vnf"} THEN base_reserved
               ELSE IF wl = "database" THEN Max(4, IntTenth(cpus_per_node))
               ELSE IF wl = "ai-inference" THEN base_reserved
               ELSE Max(4, IntTenth(cpus_per_node))
    IN  IF cpus_per_node = 0 THEN 4
        ELSE Max(2, Min(pre, Quarter(cpus_per_node)))

\* the power mode written when per-pod power management conflicts with it
ResolvedPowerMode_stepDown(p) ==
    IF Has(p, "power_mode", "ultra-low-latency")
    THEN "low-latency" ELSE "default"

ResolvedPowerMode(p) == "default"

\* the policies a DPDK-enabled set may keep
DpdkPolicies_singleOnly == {"single-numa-node"}

DpdkPolicies == {"single-numa-node", "restricted"}

\* `reserved >= numa_nodes * 2`: enough reserved CPUs to split
HasHeadroom_strict(reserved, numa_nodes) == reserved > numa_nodes * 2

HasHeadroom(reserved, numa_nodes) == reserved >= numa_nodes * 2

_adjust_parameters(summary, p) ==
    LET p1 == IF /\ Flag(p, "per_pod_power_management")
                 /\ ~Has(p, "power_mode", "default")
              THEN Put(p, "power_mode", ResolvedPowerMode(p))
              ELSE p
        p2 == IF /\ Flag(p1, "enable_dpdk")
                 /\ ~(/\ "topology_policy" \in DOMAIN p1
                      /\ p1["topology_policy"] \in DpdkPolicies)
              THEN Put(p1, "topology_policy", "single-numa-node")
              ELSE p1
        numa_nodes == Get(summary, "numa_nodes_per_node", 1)
    IN  IF /\ numa_nodes > 1
           /\ ~Flag(p2, "split_reserved_across_numa")
           /\ HasHeadroom(Get(p2, "reserved_cpu_count", 0), numa_nodes)
        THEN Put(p2, "split_reserved_across_numa", TRUE)
        ELSE p2

(***************************************************************************)
(* PPCCommandGenerator.generate_parameters.  In the parameter set the      *)
(* values of mcp_name and profile_name are kept as Optionals, since the    *)
(* code stores whatever it is handed, None included.                       *)
(***************************************************************************)
_get_base_defaults_partial ==
    [enable_rt_kernel |-> FALSE,
     disable_ht |-> FALSE,
     enable_dpdk |-> FALSE,
     power_mode |-> "default",
     topology_policy |-> "restricted",
     split_reserved_across_numa |-> FALSE]

_get_base_defaults ==
    [enable_rt_kernel |-> FALSE,
     disable_ht |-> FALSE,
     enable_dpdk |-> FALSE,
     power_mode |-> "default",
     topology_policy |-> "restricted",
     split_reserved_across_numa |-> FALSE,
     per_pod_power_management |-> FALSE]

\* `if template:` for an Optional[Dict]: None and the empty dict are falsy
TruthyDict(o) == o # None /\ DOMAIN o[1] # {}

\* for key, value in overrides.items(): if value is not None: params[key] = value
ApplyOverrides_keepSeeded(p, overrides) ==
    LET given == {k \in DOMAIN overrides : overrides[k] # None}
    IN  [k \in (DOMAIN p) \cup given |->
            IF k \in DOMAIN p THEN p[k] ELSE overrides[k][1]]

ApplyOverrides(p, overrides) ==
    LET given == {k \in DOMAIN overrides : overrides[k] # None}
    IN  [k \in (DOMAIN p) \cup given |->
            IF k \in given THEN overrides[k][1] ELSE p[k]]

generate_parameters(summary, workload_type, mcp_name, profile_name, template, overrides) ==
    LET seeded == IF TruthyDict(template)
                  THEN Get(template[1], "default_config", EmptyDict)
                  ELSE _get_base_defaults
        named == Put(Put(seeded, "mcp_name", mcp_name), "profile_name", profile_name)
        sized == IF /\ \/ "reserved_cpu_count" \notin DOMAIN overrides
                       \/ overrides["reserved_cpu_count"] = None
                    /\ "reserved_cpu_count" \notin DOMAIN named
                 THEN Put(named, "reserved_cpu_count",
                          _calculate_reserved_cpus(summary, workload_type))
                 ELSE named
    IN  _adjust_parameters(summary, ApplyOverrides(sized, overrides))

\* The binding of a call's arguments to the signature: workload_type and
\* mcp_name are required (a call without one raises TypeError),
\* profile_name defaults to "performance"; c.named holds the arguments passed
\* for mcp_name and profile_name.
Call_generate_parameters(summary, c) ==
    IF "mcp_name" \notin DOMAIN c.named
    THEN [raised |-> "TypeError", params |-> EmptyDict]
    ELSE [raised |-> "",
          params |-> generate_parameters(summary, c.workload_type,
                                         c.named["mcp_name"],
                                         Get(c.named, "profile_name", Some("performance")),
                                         c.template, c.overrides)]

(***************************************************************************)
(* Inputs of the generator.                                                *)
(***************************************************************************)
TopologyPolicies == {"single-numa-node", "restricted", "best-effort", "none"}

HeuristicWorkloads ==
    {"5g-ran", "telco-vnf", "database", "ai-inference", "hpc", "custom"}

\* a dict given by an Optional per key: the keys whose value is None are absent
Dict(rec) == [k \in {x \in DOMAIN rec : rec[x] # None} |-> rec[k][1]]

Opt(S) == {None} \cup {Some(v) : v \in S}

ParamSets ==
    {Dict(r) : r \in
        [per_pod_power_management : Opt(BOOLEAN),
         power_mode : Opt(PowerModes),
         enable_dpdk : Opt(BOOLEAN),
         topology_policy : Opt(TopologyPolicies),
         split_reserved_across_numa : Opt(BOOLEAN),
         reserved_cpu_count : Opt(0..(2 * MaxNuma + 1))]}

NumaSummaries ==
    {Dict(r) : r \in [numa_nodes_per_node : Opt(1..MaxNuma)]}

HeuristicSummaries ==
    {NoData}
    \cup {Dict(r) : r \in [cpus_per_node : Opt(0..MaxHeuristicCpus),
                           numa_nodes_per_node : Opt(1..MaxNuma)]}

(***************************************************************************)
(* Conflict resolution as a state machine: one call of _adjust_parameters. *)
(***************************************************************************)
Adjust ==
    /\ pc = "init"
    /\ \E s \in NumaSummaries, p \in ParamSets :
        /\ pc' = "adjust"
        /\ hardware_info' = [summary |-> s]
        /\ params0' = p
        /\ params' = _adjust_parameters(s, p)
        /\ UNCHANGED <<workload, reserved_cpus, call, generated>>
        /\ UNCHANGED validator_vars
        /\ UNCHANGED server_vars

NextAdjust == Adjust

SpecAdjust == Init /\ [][NextAdjust]_vars

(***************************************************************************)
(* The reserved-CPU heuristic as a state machine: one call.                *)
(***************************************************************************)
CalculateReserved ==
    /\ pc = "init"
    /\ \E s \in HeuristicSummaries, wl \in HeuristicWorkloads :
        /\ pc' = "reserved"
        /\ hardware_info' = [summary |-> s]
        /\ workload' = wl
        /\ reserved_cpus' = _calculate_reserved_cpus(s, wl)
        /\ UNCHANGED <<params0, params, call, generated>>
        /\ UNCHANGED validator_vars
        /\ UNCHANGED server_vars

NextReserved == CalculateReserved

SpecReserved == Init /\ [][NextReserved]_vars

(***************************************************************************)
(* Parameter synthesis as a state machine: a generator is constructed on   *)
(* some hardware information and generate_parameters is called once.       *)
(***************************************************************************)
GenerateWorkloads == (DOMAIN TEMPLATES) \cup {"custom", "web-server"}

GenerateSummaries ==
    {NoData}
    \cup [cpus_per_node : {0, 1, 16, TestCpus},
          numa_nodes_per_node : 1..MaxNuma]

\* what a caller hands over as template: nothing, the catalog's answer for
\* the workload type, or an empty dict
GenerateTemplates(wl) == {None, get_template(wl), Some(EmptyDict)}

\* the arguments passed for mcp_name and profile_name
NamedArguments ==
    {EmptyDict,
     [mcp_name |-> None],
     [mcp_name |-> Some("worker-cnf")],
     [mcp_name |-> Some("worker-cnf"), profile_name |-> Some("5g-performance")]}

\* a keyword argument: not passed, passed as None, or passed with a value
Keyword(S) == Opt(Opt(S))
NotPassed == {None}
Passed(S) == {Some(v) : v \in Opt(S)}
PassedValue(S) == {Some(Some(v)) : v \in S}

OverrideSets(per_pod, power, dpdk, topology, split, reserved, rt, ht, isolated) ==
    {Dict(r) : r \in
        [per_pod_power_management : per_pod,
         power_mode : power,
         enable_dpdk : dpdk,
         topology_policy : topology,
         split_reserved_across_numa : split,
         reserved_cpu_count : reserved,
         enable_rt_kernel : rt,
         disable_ht : ht,
         isolated_cpu_count : isolated]}

\* overrides around each rule of the conflict resolution, ...
PowerOverrides ==
    OverrideSets(Keyword(BOOLEAN), Keyword(PowerModes), NotPassed, NotPassed,
                 NotPassed, NotPassed, NotPassed, NotPassed, NotPassed)

DpdkOverrides ==
    OverrideSets(NotPassed, NotPassed, Keyword(BOOLEAN), Keyword(TopologyPolicies),
                 NotPassed, NotPassed, NotPassed, NotPassed, NotPassed)

SplitOverrides ==
    OverrideSets(NotPassed, NotPassed, NotPassed, NotPassed,
                 Keyword(BOOLEAN), Keyword({0, 2 * MaxNuma - 1, 2 * MaxNuma}),
                 NotPassed, NotPassed, NotPassed)

\* ... overrides of the options no rule rewrites, ...
PlainOverrides ==
    OverrideSets(NotPassed, NotPassed, NotPassed, NotPassed, NotPassed, NotPassed,
                 Keyword(BOOLEAN), Keyword(BOOLEAN), Keyword({4}))

\* ... and overrides with every keyword passed, as generate_ppc_command
\* passes them
ServerOverrides ==
    OverrideSets(PassedValue(BOOLEAN), PassedValue({"default", "ultra-low-latency"}),
                 PassedValue(BOOLEAN), PassedValue({"restricted", "best-effort"}),
                 PassedValue(BOOLEAN), Passed({6}),
                 PassedValue(BOOLEAN), PassedValue({FALSE}), Passed({}))

Overrides ==
    PowerOverrides \cup DpdkOverrides \cup SplitOverrides
    \cup PlainOverrides \cup ServerOverrides

Generate ==
    /\ pc = "init"
    /\ \E s \in GenerateSummaries, wl \in GenerateWorkloads, n \in NamedArguments,
          o \in Overrides :
        \E t \in GenerateTemplates(wl) :
            LET c == [workload_type |-> wl, named |-> n, template |-> t, overrides |-> o]
            IN  /\ pc' = "generate"
                /\ hardware_info' = [summary |-> s]
                /\ workload' = wl
                /\ call' = c
                /\ generated' = Call_generate_parameters(s, c)
                /\ UNCHANGED <<params0, params, reserved_cpus>>
                /\ UNCHANGED validator_vars
                /\ UNCHANGED server_vars

NextGenerate == Generate

SpecGenerate == Init /\ [][NextGenerate]_vars

(***************************************************************************)
(* MustGatherParser (must_gather_parser.py).  A must-gather directory is   *)
(* given by the node files the globs find in it; a node file by the fields *)
(* the parser reads: its kind, the roles of its node-role labels, the      *)
(* architecture of its nodeInfo and the text of its CPU capacity.          *)
(***************************************************************************)
NodeFile(kind, roles, architecture, cpu) ==
    [kind |-> kind, roles |-> roles, architecture |-> architecture, cpu |-> cpu]

SeqToSet(q) == {q[i] : i \in 1..Len(q)}

\* list(set(...)): the elements of a set in some order
Orderings(S) == {q \in [1..Cardinality(S) -> S] : SeqToSet(q) = S}

\* str.isdigit()
IsDigits(cs) == Len(cs) > 0 /\ \A i \in 1..Len(cs) : IsDigit(cs[i])

_estimate_numa_nodes(cpu_count) ==
    IF cpu_count >= 64 THEN 4
    ELSE IF cpu_count >= 32 THEN 2
    ELSE 1

\* int(capacity.get('cpu', '0')) if it is a run of digits, else 0
CpuCount(text) == IF IsDigits(Chars(text)) THEN DecimalVal(Chars(text)) ELSE 0

_extract_cpu_topology(node_data) ==
    LET cpu_count == CpuCount(node_data.cpu)
    IN  [total_cpus |-> cpu_count,
         numa_nodes |-> _estimate_numa_nodes(cpu_count),
         threads_per_core |-> 2]

_extract_node_info(node_data) ==
    [roles |-> node_data.roles,
     architecture |-> node_data.architecture,
     cpu |-> [capacity |-> CpuCount(node_data.cpu),
              topology |-> _extract_cpu_topology(node_data)]]

_parse_nodes_fallback ==
    <<[roles |-> <<"worker">>,
       architecture |-> "amd64",
       cpu |-> [capacity |-> 48,
                topology |-> [total_cpus |-> 48, numa_nodes |-> 2,
                              threads_per_core |-> 2]]]>>

\* the loop of _parse_nodes over the files found: files that are no Node
\* are skipped
RECURSIVE ParsedNodes(_)
ParsedNodes(files) ==
    IF files = <<>> THEN <<>>
    ELSE (IF Head(files).kind = "Node"
          THEN <<_extract_node_info(Head(files))>> ELSE <<>>)
         \o ParsedNodes(Tail(files))

_parse_nodes(files) ==
    IF ParsedNodes(files) = <<>> THEN _parse_nodes_fallback ELSE ParsedNodes(files)

IsWorker(n) == "master" \notin SeqToSet(n.roles) /\ "control-plane" \notin SeqToSet(n.roles)

RECURSIVE TotalCpus(_)
TotalCpus(ns) == IF ns = <<>> THEN 0 ELSE Head(ns).cpu.capacity + TotalCpus(Tail(ns))

\* the nodes the summary aggregates: the workers, or all nodes if none is one
worker_nodes(nodes) ==
    IF SelectSeq(nodes, IsWorker) = <<>> THEN nodes ELSE SelectSeq(nodes, IsWorker)

\* _generate_summary; architectures is the order list(set(...)) produced
_generate_summary(nodes, architectures) ==
    IF nodes = <<>> THEN NoData
    ELSE
    LET workers == worker_nodes(nodes)
        sample_topology == workers[1].cpu.topology
    IN  [total_nodes |-> Len(nodes),
         worker_nodes |-> Len(workers),
         total_cpus |-> TotalCpus(workers),
         cpus_per_node |-> workers[1].cpu.capacity,
         architectures |-> architectures,
         numa_nodes_per_node |-> sample_topology.numa_nodes,
         hyperthreading_enabled |-> sample_topology.threads_per_core > 1,
         sample_topology |-> sample_topology]

\* analyze_hardware: the results it can return, one per order of the
\* architectures
analyze_hardware(files) ==
    LET nodes == _parse_nodes(files)
        found == {n.architecture : n \in SeqToSet(worker_nodes(nodes))}
    IN  {[nodes |-> nodes, summary |-> _generate_summary(nodes, architectures)] :
            architectures \in Orderings(found)}

\* get_summary: the values the text prints; ', '.join raises TypeError on an
\* architecture that is not a str
get_summary(summary) ==
    IF "error" \in DOMAIN summary
    THEN [raised |-> "", text |-> [error |-> summary["error"]]]
    ELSE IF \E a \in SeqToSet(Get(summary, "architectures", <<"unknown">>)) : ~IsStr(a)
    THEN [raised |-> "TypeError", text |-> <<>>]
    ELSE [raised |-> "",
          text |-> [total_nodes |-> Get(summary, "total_nodes", 0),
                    worker_nodes |-> Get(summary, "worker_nodes", 0),
                    cpus_per_node |-> Get(summary, "cpus_per_node", 0),
                    total_cpus |-> Get(summary, "total_cpus", 0),
                    architectures |-> Get(summary, "architectures", <<"unknown">>),
                    numa_nodes |-> Get(summary, "numa_nodes_per_node", 1),
                    ht_status |-> IF Get(summary, "hyperthreading_enabled", FALSE)
                                  THEN "enabled" ELSE "disabled"]]

(***************************************************************************)
(* PPCCommandGenerator.build_command and explain_parameters.  The command  *)
(* is given by its clauses, in order: the text joins them with a line      *)
(* continuation.  A clause is its fixed text with the value printed into   *)
(* it.                                                                     *)
(***************************************************************************)
\* f"{value}" of an Optional[str]
StrOpt(o) == IF o = None THEN "None" ELSE o[1]

\* str(flag).lower()
StrLower_capitalized(flag) == IF flag THEN "True" ELSE "False"

StrLower(flag) == IF flag THEN "true" ELSE "false"

image_tag == "4.11"
Redirection == Msg("> performance-profile.yaml", <<>>, "")

build_command(summary, must_gather_path, p) ==
    IF Len(Get(summary, "architectures", <<"amd64">>)) = 0
    THEN [raised |-> "IndexError", command |-> <<>>]
    ELSE IF ~({"mcp_name", "profile_name", "reserved_cpu_count"} \subseteq DOMAIN p)
    THEN [raised |-> "KeyError", command |-> <<>>]
    ELSE
    LET power_mode == Get(p, "power_mode", "default")
        topology_policy == Get(p, "topology_policy", "restricted")
    IN  [raised |-> "",
         command |->
            <<Msg("podman run --entrypoint performance-profile-creator", <<>>, ""),
              Msg("-v :/must-gather:z", <<>>, must_gather_path),
              Msg("quay.io/openshift/origin-cluster-node-tuning-operator:", <<>>, image_tag),
              Msg("--must-gather-dir-path /must-gather", <<>>, ""),
              Msg("--mcp-name", <<>>, StrOpt(p["mcp_name"])),
              Msg("--profile-name", <<>>, StrOpt(p["profile_name"])),
              Msg("--reserved-cpu-count", <<p["reserved_cpu_count"]>>, ""),
              Msg("--rt-kernel", <<>>, StrLower(Get(p, "enable_rt_kernel", FALSE)))>>
            \o When(Flag(p, "disable_ht"), Msg("--disable-ht", <<>>, ""))
            \o When(Flag(p, "enable_dpdk"), Msg("--user-level-networking", <<>>, ""))
            \o When(Flag(p, "split_reserved_across_numa"),
                    Msg("--split-reserved-cpus-across-numa", <<>>, ""))
            \o When(Flag(p, "per_pod_power_management"),
                    Msg("--per-pod-power-management", <<>>, ""))
            \o When(power_mode # "default",
                    Msg("--power-consumption-mode", <<>>, power_mode))
            \o <<Msg("--topology-manager-policy", <<>>, topology_policy),
                 Redirection>>]

\* explain_parameters: the two counts the CPU section prints; isolated is
\* the text "calculated" (here: None) when cpus_per_node is unknown
explain_parameters(summary, p) ==
    LET reserved == Get(p, "reserved_cpu_count", 0)
        cpus_per_node == Get(summary, "cpus_per_node", 0)
    IN  [reserved |-> reserved,
         isolated |-> IF cpus_per_node > 0 THEN Some(cpus_per_node - reserved) ELSE None]

(***************************************************************************)
(* The server (mcp_server.py): its tools are called in any order, any      *)
(* number of times.  The handlers are coroutines without an await, so the  *)
(* event loop runs each of them to its end before the next.                *)
(***************************************************************************)
\* one mapping, as MCP_PATH_MAP_0=/host/mg:/data/mg configures it
_path_mappings == <<<<"/host/mg", "/data/mg">>>>

resolve_path(input_path) ==
    LET hits == {i \in 1..Len(_path_mappings) :
                    /\ _path_mappings[i][1] # ""
                    /\ input_path = _path_mappings[i][1]}
    IN  IF Len(_path_mappings) = 0 \/ hits = {} THEN input_path
        ELSE _path_mappings[CHOOSE i \in hits : \A j \in hits : i <= j][2]

NoHardwareData == "No hardware data available. Please run analyze_cluster_hardware first."

\* cls.TEMPLATES.get(workload_type), on the class attribute as it is
lookup(templates, workload_type) ==
    IF workload_type \in DOMAIN templates THEN Some(templates[workload_type]) ELSE None

\* The class attribute after generate_parameters: the working set is a copy
\* of the entry's default_config, so what is written to it stays out of the
\* catalog.
TEMPLATES_after_generate_shared(templates, workload_type, result) ==
    IF workload_type \in DOMAIN templates
    THEN [templates EXCEPT ![workload_type] = [default_config |-> result]]
    ELSE templates

TEMPLATES_after_generate(templates, workload_type, result) == templates

\* the order of the keys of TEMPLATES
TemplateOrder ==
    <<"5g-ran", "telco-vnf", "database", "ai-inference", "hpc",
      "low-latency-trading", "media-processing">>

list_templates(templates) ==
    [i \in 1..Len(TemplateOrder) |->
        [type |-> TemplateOrder[i],
         requires_rt_kernel |-> templates[TemplateOrder[i]].default_config["enable_rt_kernel"],
         requires_dpdk |-> templates[TemplateOrder[i]].default_config["enable_dpdk"],
         power_mode |-> templates[TemplateOrder[i]].default_config["power_mode"]]]

\* the defaults of the keyword parameters of generate_ppc_command
generate_ppc_command_defaults ==
    [profile_name |-> Some("performance"),
     isolated_cpu_count |-> None,
     reserved_cpu_count |-> None,
     enable_rt_kernel |-> Some(FALSE),
     disable_ht |-> Some(FALSE),
     enable_dpdk |-> Some(FALSE),
     power_mode |-> Some("default"),
     topology_policy |-> Some("restricted"),
     split_reserved_across_numa |-> Some(FALSE),
     per_pod_power_management |-> Some(FALSE)]

\* the binding of the keyword arguments a caller supplies
Bound(defaults, supplied) ==
    [k \in DOMAIN defaults |-> IF k \in DOMAIN supplied THEN supplied[k] ELSE defaults[k]]

\* the **overrides generate_ppc_command hands to generate_parameters
OverrideKeys == (DOMAIN generate_ppc_command_defaults) \ {"profile_name"}

(***************************************************************************)
(* Inputs of the server.                                                   *)
(***************************************************************************)
Paths == {"", "/data/mg", "/host/mg"}

\* what is at a path: nothing (None), or a directory with these node files
Directories ==
    {<<>>,
     <<NodeFile("ConfigMap", <<>>, "amd64", "8")>>,
     <<NodeFile("Node", <<"worker">>, "amd64", "8")>>,
     <<NodeFile("Node", <<"worker">>, "aarch64", "64")>>,
     <<NodeFile("Node", <<"worker">>, NotAString, "8")>>,
     <<NodeFile("Node", <<"master">>, "amd64", "64"),
       NodeFile("Node", <<"worker">>, "amd64", "8"),
       NodeFile("Node", <<"worker">>, "aarch64", "8")>>}

ValidateArguments ==
    [workload_type : {"5g-ran"},
     isolated_cpu_count : {None},
     reserved_cpu_count : {None, Some(4), Some(100)},
     enable_rt_kernel : BOOLEAN,
     enable_dpdk : {FALSE},
     hugepages_size : {None, Some("2M"), Some("G")},
     hugepages_count : {None, Some(2)},
     power_mode : {"default"}]

Supplied(S) == NotPassed \cup PassedValue(S)

\* the keyword arguments a caller of generate_ppc_command supplies: the
\* flags build_command prints, ...
FlagKeywords ==
    {Dict(r) : r \in
        [enable_rt_kernel : Supplied({TRUE}),
         disable_ht : Supplied({TRUE}),
         enable_dpdk : Supplied({TRUE}),
         split_reserved_across_numa : Supplied({TRUE}),
         per_pod_power_management : Supplied({TRUE})]}

\* ... the options the conflict resolution reads, ...
PolicyKeywords ==
    {Dict(r) : r \in
        [reserved_cpu_count : Keyword({6}),
         enable_dpdk : Supplied({TRUE}),
         power_mode : Supplied({"ultra-low-latency"}),
         topology_policy : Supplied({"best-effort"}),
         per_pod_power_management : Supplied({TRUE})]}

\* ... and the names
NameKeywords ==
    {Dict(r) : r \in
        [profile_name : Supplied({"5g-performance"}),
         isolated_cpu_count : Keyword({4})]}

GenerateKeywords == FlagKeywords \cup PolicyKeywords \cup NameKeywords

\* every workload type with no keyword supplied, one of them with any
GenerateArguments ==
    [workload_type : GenerateWorkloads, mcp_name : {"worker-cnf"}, keywords : {EmptyDict}]
    \cup [workload_type : {"5g-ran"}, mcp_name : {"worker-cnf"},
          keywords : GenerateKeywords]

(***************************************************************************)
(* The tools.                                                              *)
(***************************************************************************)
Serving == pc \in {"init", "server"}

AnalyzeClusterHardware ==
    /\ Serving
    /\ \E must_gather_path \in Paths, directory \in Opt(Directories) :
        LET resolved_path == resolve_path(must_gather_path)
            path_info == [original_path |-> must_gather_path,
                          resolved_path |-> IF must_gather_path # ""
                                            THEN Some(resolve_path(must_gather_path))
                                            ELSE None]
            failure(e) == [tool |-> "analyze_cluster_hardware",
                           success |-> FALSE, error |-> e, path_info |-> path_info]
        IN  \* Path("") is the working directory, which exists
            /\ resolved_path = "" => directory # None
            /\ IF directory = None
               THEN \* MustGatherParser.__init__ raises ValueError
                    /\ response' = failure("ValueError")
                    /\ UNCHANGED <<_must_gather_data, _must_gather_path, analyzed>>
               ELSE \E info \in analyze_hardware(directory[1]) :
                    /\ _must_gather_data' = Some(info)
                    /\ _must_gather_path' = Some(resolved_path)
                    /\ IF get_summary(Summary(info)).raised # ""
                       THEN /\ response' = failure(get_summary(Summary(info)).raised)
                            /\ UNCHANGED analyzed
                       ELSE /\ response' =
                                 [tool |-> "analyze_cluster_hardware",
                                  success |-> TRUE,
                                  hardware_info |-> info,
                                  summary |-> get_summary(Summary(info)).text,
                                  path_info |-> [original_path |-> must_gather_path,
                                                 resolved_path |-> Some(resolved_path)]]
                            /\ analyzed' = Some([data |-> info, path |-> resolved_path])
    /\ pc' = "server"
    /\ UNCHANGED <<hardware_info, catalog>>
    /\ UNCHANGED validator_vars
    /\ UNCHANGED generator_vars

\* the requirements dict the tool builds; per_pod_power_management is no
\* key of it, so the validator reads its default
ToolRequirements(a) ==
    [workload_type |-> a.workload_type,
     isolated_cpu_count |-> a.isolated_cpu_count,
     reserved_cpu_count |-> a.reserved_cpu_count,
     enable_rt_kernel |-> a.enable_rt_kernel,
     enable_dpdk |-> a.enable_dpdk,
     hugepages_size |-> a.hugepages_size,
     hugepages_count |-> a.hugepages_count,
     power_mode |-> a.power_mode,
     per_pod_power_management |-> FALSE]

\* what validate_performance_requirements answers on the cached data
validate_performance_requirements(data, a) ==
    LET v == validate(Summary(data), ToolRequirements(a))
    IN  IF v.raised # ""
        THEN [tool |-> "validate_performance_requirements", args |-> a,
              success |-> FALSE, error |-> v.raised]
        ELSE [tool |-> "validate_performance_requirements", args |-> a,
              success |-> TRUE, validation |-> v.report]

ValidatePerformanceRequirements ==
    /\ Serving
    /\ \E a \in ValidateArguments :
        response' =
            IF ~TruthyDict(_must_gather_data)
            THEN [tool |-> "validate_performance_requirements", args |-> a,
                  success |-> FALSE, error |-> NoHardwareData]
            ELSE validate_performance_requirements(_must_gather_data[1], a)
    /\ pc' = "server"
    /\ UNCHANGED <<hardware_info, _must_gather_data, _must_gather_path, catalog, analyzed>>
    /\ UNCHANGED validator_vars
    /\ UNCHANGED generator_vars

\* what generate_ppc_command answers on the cached data and path
generate_ppc_command(data, path, templates, a) ==
    LET summary == Summary(data)
        template == lookup(templates, a.workload_type)
        bound == Bound(generate_ppc_command_defaults, a.keywords)
        result == generate_parameters(summary, a.workload_type, Some(a.mcp_name),
                                      bound["profile_name"], template,
                                      [k \in OverrideKeys |-> bound[k]])
        built == build_command(summary, path, result)
    IN  IF built.raised # ""
        THEN [tool |-> "generate_ppc_command", args |-> a,
              success |-> FALSE, error |-> built.raised]
        ELSE [tool |-> "generate_ppc_command", args |-> a,
              success |-> TRUE,
              command |-> built.command,
              parameters |-> result,
              explanation |-> explain_parameters(summary, result),
              workload_template |-> IF TruthyDict(template)
                                    THEN Some(a.workload_type) ELSE None]

GeneratePpcCommand ==
    /\ Serving
    /\ \E a \in GenerateArguments :
        IF ~TruthyDict(_must_gather_data) \/ ~TruthyStr(_must_gather_path)
        THEN /\ response' = [tool |-> "generate_ppc_command", args |-> a,
                             success |-> FALSE, error |-> NoHardwareData]
             /\ UNCHANGED catalog
        ELSE LET r == generate_ppc_command(_must_gather_data[1], _must_gather_path[1],
                                           catalog, a)
             IN  /\ response' = r
                 /\ catalog' = IF r.success
                               THEN TEMPLATES_after_generate(catalog, a.workload_type,
                                                             r.parameters)
                               ELSE catalog
    /\ pc' = "server"
    /\ UNCHANGED <<hardware_info, _must_gather_data, _must_gather_path, analyzed>>
    /\ UNCHANGED validator_vars
    /\ UNCHANGED generator_vars

ListWorkloadTemplates ==
    /\ Serving
    /\ response' = [tool |-> "list_workload_templates", success |-> TRUE,
                    templates |-> list_templates(catalog)]
    /\ pc' = "server"
    /\ UNCHANGED <<hardware_info, _must_gather_data, _must_gather_path, catalog, analyzed>>
    /\ UNCHANGED validator_vars
    /\ UNCHANGED generator_vars

\* WorkloadTemplates.get_template, called on its own
GetTemplate ==
    /\ Serving
    /\ \E workload_type \in GenerateWorkloads :
        response' = [tool |-> "get_template", args |-> workload_type, success |-> TRUE,
                     template |-> lookup(catalog, workload_type)]
    /\ pc' = "server"
    /\ UNCHANGED <<hardware_info, _must_gather_data, _must_gather_path, catalog, analyzed>>
    /\ UNCHANGED validator_vars
    /\ UNCHANGED generator_vars

NextServer ==
    \/ AnalyzeClusterHardware
    \/ ValidatePerformanceRequirements
    \/ GeneratePpcCommand
    \/ ListWorkloadTemplates
    \/ GetTemplate

SpecServer == Init /\ [][NextServer]_vars

(***************************************************************************)
(* Properties of the generator.                                            *)
(***************************************************************************)
\* C9: conflict resolution is idempotent: resolving an already resolved
\* parameter set leaves it as it is.
C9_AdjustIsIdempotent ==
    pc = "adjust" =>
        _adjust_parameters(Summary(hardware_info), params) = params

C9_Witness ==
    /\ pc = "adjust"
    /\ Has(params0, "power_mode", "ultra-low-latency")
    /\ Has(params, "power_mode", "default")
    /\ Has(params0, "topology_policy", "best-effort")
    /\ Has(params, "topology_policy", "single-numa-node")
    /\ Has(params0, "split_reserved_across_numa", FALSE)
    /\ Has(params, "split_reserved_across_numa", TRUE)

\* C10 (as claimed): for a fixed workload type and NUMA count the heuristic
\* is non-decreasing in cpus_per_node over all counts a <= b, 0 included.
C10_HeuristicMonotonicFromZero ==
    pc = "reserved" =>
        \A a \in 0..CpusPerNode :
            _calculate_reserved_cpus(
                Put(Summary(hardware_info), "cpus_per_node", a), workload)
            <= reserved_cpus

\* C10 (amended): the same over the known counts, 1 <= a <= b.
C10_HeuristicMonotonicOverKnownCounts ==
    pc = "reserved" =>
        \A a \in 1..CpusPerNode :
            _calculate_reserved_cpus(
                Put(Summary(hardware_info), "cpus_per_node", a), workload)
            <= reserved_cpus

C10_Witness ==
    /\ pc = "reserved"
    /\ workload = "database"
    /\ CpusPerNode = MaxHeuristicCpus
    /\ reserved_cpus > 4
    /\ _calculate_reserved_cpus(
           Put(Summary(hardware_info), "cpus_per_node", 1), workload) = 2

\* C11 (as claimed): whenever cpus_per_node is known (> 0) the heuristic's
\* result r satisfies 2 <= r <= cpus_per_node // 4.
C11_ResultWithinTwoAndQuarter ==
    (pc = "reserved" /\ CpusPerNode > 0)
    => (2 <= reserved_cpus /\ reserved_cpus <= CpusPerNode \div 4)

\* C11 (amended): whenever cpus_per_node is known the result r satisfies
\* 2 <= r <= max(2, cpus_per_node // 4); the lower bound wins when a quarter
\* of the CPUs is less than 2.
C11_ResultWithinTwoAndLargerOfTwoAndQuarter ==
    (pc = "reserved" /\ CpusPerNode > 0)
    => /\ 2 <= reserved_cpus
       /\ reserved_cpus <= Max(2, CpusPerNode \div 4)
       /\ CpusPerNode >= 8 => reserved_cpus <= CpusPerNode \div 4

C11_Witness ==
    /\ pc = "reserved"
    /\ CpusPerNode = 7
    /\ reserved_cpus = 2
    /\ CpusPerNode \div 4 = 1

\* round(cpus_per_node * 0.1): to the nearest integer, a tie to the even one
RoundTenth(cpus_per_node) ==
    LET q == cpus_per_node \div 10
        rem == cpus_per_node % 10
    IN  IF rem > 5 \/ (rem = 5 /\ q % 2 = 1) THEN q + 1 ELSE q

LowReserveWorkloads == {"5g-ran", "telco-vnf", "ai-inference"}

\* the reference of the claim, with the tenth of the CPUs given as `tenth`
Reference(tenth) ==
    LET pre == IF workload \in LowReserveWorkloads
               THEN Max(2, 2 * NumaNodes)
               ELSE Max(4, tenth)
    IN  Max(2, Min(pre, CpusPerNode \div 4))

\* C12 (as claimed): for cpus_per_node > 0 the heuristic equals the
\* reference with pre = max(4, round(cpus_per_node * 0.1)), rounding to the
\* nearest integer, for the workloads other than 5g-ran, telco-vnf and
\* ai-inference.
C12_EqualsReferenceWithRounding ==
    (pc = "reserved" /\ CpusPerNode > 0)
    => reserved_cpus = Reference(RoundTenth(CpusPerNode))

\* C12 (amended): the same with the tenth truncated, pre = max(4,
\* floor(cpus_per_node / 10)); in particular the result is 4 for 5g-ran at
\* 48 CPUs and 2 NUMA nodes.
C12_EqualsReferenceWithTruncation ==
    (pc = "reserved" /\ CpusPerNode > 0)
    => /\ reserved_cpus = Reference(CpusPerNode \div 10)
       /\ (workload = "5g-ran" /\ CpusPerNode = 48 /\ NumaNodes = 2)
              => reserved_cpus = 4

C12_Witness ==
    /\ pc = "reserved"
    /\ workload = "database"
    /\ CpusPerNode = 46
    /\ reserved_cpus = 4
    /\ Reference(RoundTenth(CpusPerNode)) = 5

(***************************************************************************)
(* Properties of generate_parameters.                                      *)
(***************************************************************************)
Generated == pc = "generate" /\ generated.raised = ""
Result == generated.params

\* the call passes mcp_name and profile_name as strings (or leaves
\* profile_name to its default)
NamesGiven ==
    /\ "mcp_name" \in DOMAIN call.named
    /\ \A k \in DOMAIN call.named : call.named[k] # None

\* the override passed for k is a value (not None)
Overridden(k) == k \in DOMAIN call.overrides /\ call.overrides[k] # None
OverriddenAs(k, v) == k \in DOMAIN call.overrides /\ call.overrides[k] = Some(v)

CoreOptions ==
    {"enable_rt_kernel", "disable_ht", "enable_dpdk", "power_mode",
     "topology_policy", "split_reserved_across_numa", "per_pod_power_management"}

\* the options conflict resolution may rewrite
Rewritable == {"power_mode", "topology_policy", "split_reserved_across_numa"}

\* C13: in every result of generate_parameters, per_pod_power_management
\* truthy implies power_mode = "default"; overrides per_pod_power_management
\* = true with power_mode = "low-latency" resolve to power_mode = "default"
\* while per_pod_power_management stays true.
C13_PerPodImpliesDefaultPowerMode ==
    Generated =>
        /\ Flag(Result, "per_pod_power_management")
              => Has(Result, "power_mode", "default")
        /\ (/\ OverriddenAs("per_pod_power_management", TRUE)
            /\ OverriddenAs("power_mode", "low-latency"))
              => /\ Has(Result, "power_mode", "default")
                 /\ Has(Result, "per_pod_power_management", TRUE)

C13_Witness ==
    /\ Generated
    /\ OverriddenAs("per_pod_power_management", TRUE)
    /\ OverriddenAs("power_mode", "low-latency")
    /\ Has(Result, "power_mode", "default")
    /\ Has(Result, "per_pod_power_management", TRUE)
    /\ call.template # None

\* the working set of the claim before the overrides: the template's
\* default_config or the built-in defaults, and the heuristic's count
SeededValue(k) ==
    LET seeded == IF call.template \in {None, Some(EmptyDict)}
                  THEN [enable_rt_kernel |-> FALSE, disable_ht |-> FALSE,
                        enable_dpdk |-> FALSE, power_mode |-> "default",
                        topology_policy |-> "restricted",
                        split_reserved_across_numa |-> FALSE,
                        per_pod_power_management |-> FALSE]
                  ELSE call.template[1].default_config
    IN  IF k \in DOMAIN seeded THEN Some(seeded[k])
        ELSE IF k = "reserved_cpu_count"
        THEN Some(_calculate_reserved_cpus(Summary(hardware_info), call.workload_type))
        ELSE None

\* C14: for every override key other than power_mode, topology_policy and
\* split_reserved_across_numa, an override with a value is the resolved
\* value (so an explicit reserved_cpu_count replaces the heuristic), and an
\* override that is None leaves the seeded or heuristic value in place (and
\* an option that is not seeded absent).
C14_OverridesAppliedVerbatim ==
    Generated =>
        \A k \in (DOMAIN call.overrides) \ Rewritable :
            IF call.overrides[k] # None
            THEN k \in DOMAIN Result /\ Result[k] = call.overrides[k][1]
            ELSE IF SeededValue(k) = None
            THEN k \notin DOMAIN Result
            ELSE k \in DOMAIN Result /\ Result[k] = SeededValue(k)[1]

C14_Witness ==
    /\ Generated
    /\ workload = "5g-ran"
    /\ call.template = Some(TEMPLATES["5g-ran"])
    /\ OverriddenAs("enable_rt_kernel", FALSE)
    /\ Has(Result, "enable_rt_kernel", FALSE)
    /\ "disable_ht" \in DOMAIN call.overrides
    /\ call.overrides["disable_ht"] = None
    /\ Has(Result, "disable_ht", TRUE)
    /\ "isolated_cpu_count" \in DOMAIN call.overrides
    /\ call.overrides["isolated_cpu_count"] = None
    /\ "isolated_cpu_count" \notin DOMAIN Result

\* the keys build_command reads with params[...]
RequiredByBuildCommand == {"mcp_name", "profile_name", "reserved_cpu_count"}

CatalogIds ==
    {"5g-ran", "telco-vnf", "database", "ai-inference", "hpc",
     "low-latency-trading", "media-processing"}

\* C16: for a workload_type that is not in the catalog get_template returns
\* None, and generate_parameters with that absent template does not raise
\* and seeds the result from the built-in defaults: every core option that
\* is not overridden has its default (false, "default", "restricted"),
\* except that conflict resolution may switch split_reserved_across_numa on.
C16_UnknownWorkloadFallsBackToDefaults ==
    (pc = "generate" /\ workload \notin CatalogIds) =>
        /\ get_template(workload) = None
        /\ ("mcp_name" \in DOMAIN call.named /\ call.template = get_template(workload))
           => /\ generated.raised = ""
              /\ \A k \in CoreOptions \ {"power_mode", "topology_policy",
                                         "split_reserved_across_numa"} :
                    ~Overridden(k) => Has(Result, k, FALSE)
              /\ ~Overridden("power_mode") => Has(Result, "power_mode", "default")
              /\ ~Overridden("topology_policy")
                    => Has(Result, "topology_policy", "restricted")
              /\ ~Overridden("split_reserved_across_numa")
                    => Has(Result, "split_reserved_across_numa",
                           NumaNodes > 1 /\ Result["reserved_cpu_count"] >= 2 * NumaNodes)

C16_Witness ==
    /\ Generated
    /\ workload = "web-server"
    /\ call.template = None
    /\ call.overrides = EmptyDict
    /\ NumaNodes = 1
    /\ Has(Result, "split_reserved_across_numa", FALSE)
    /\ Has(Result, "topology_policy", "restricted")
    /\ Has(Result, "mcp_name", Some("worker-cnf"))

\* C17: generate_parameters called without mcp_name, or with mcp_name None,
\* raises and returns no parameter set; no result has mcp_name None.
C17_MissingMcpNameIsRejected ==
    pc = "generate" =>
        /\ ("mcp_name" \notin DOMAIN call.named \/ call.named["mcp_name"] = None)
              => (generated.raised # "" /\ generated.params = EmptyDict)
        /\ generated.raised = "" => Result["mcp_name"] # None

\* the catalog seeds of the table: rt, ht-disable, dpdk, power_mode,
\* topology_policy, numa-split, per-pod-pm
Seeds ==
    [t \in CatalogIds |->
        CASE t = "5g-ran" ->
                <<TRUE, TRUE, TRUE, "ultra-low-latency", "single-numa-node", TRUE, FALSE>>
          [] t = "telco-vnf" ->
                <<TRUE, FALSE, TRUE, "low-latency", "single-numa-node", TRUE, FALSE>>
          [] t = "database" ->
                <<FALSE, FALSE, FALSE, "default", "restricted", TRUE, FALSE>>
          [] t = "ai-inference" ->
                <<FALSE, FALSE, FALSE, "low-latency", "single-numa-node", TRUE, FALSE>>
          [] t = "hpc" ->
                <<FALSE, FALSE, FALSE, "low-latency", "single-numa-node", TRUE, FALSE>>
          [] t = "low-latency-trading" ->
                <<TRUE, TRUE, TRUE, "ultra-low-latency", "single-numa-node", TRUE, FALSE>>
          [] t = "media-processing" ->
                <<FALSE, FALSE, FALSE, "default", "restricted", TRUE, TRUE>>]

HasSeeds(config, seeds) ==
    /\ DOMAIN config = CoreOptions
    /\ config["enable_rt_kernel"] = seeds[1]
    /\ config["disable_ht"] = seeds[2]
    /\ config["enable_dpdk"] = seeds[3]
    /\ config["power_mode"] = seeds[4]
    /\ config["topology_policy"] = seeds[5]
    /\ config["split_reserved_across_numa"] = seeds[6]
    /\ config["per_pod_power_management"] = seeds[7]

\* C18: the catalog holds exactly the seven type_ids; every entry's
\* default_config defines the seven core options with the values of the
\* table, per_pod_power_management being true for media-processing only;
\* and that is what a lookup of the call's workload type answers.
C18_CatalogIsTheTable ==
    /\ DOMAIN TEMPLATES = CatalogIds
    /\ \A t \in DOMAIN TEMPLATES :
          /\ t \in CatalogIds
          /\ HasSeeds(TEMPLATES[t].default_config, Seeds[t])
          /\ TEMPLATES[t].default_config["per_pod_power_management"]
                <=> t = "media-processing"
    /\ pc = "generate" =>
          IF workload \in CatalogIds
          THEN /\ get_template(workload) # None
               /\ HasSeeds(get_template(workload)[1].default_config, Seeds[workload])
          ELSE get_template(workload) = None

C18_Witness ==
    /\ Generated
    /\ workload = "media-processing"
    /\ call.template = get_template(workload)
    /\ call.template # None
    /\ call.template[1].default_config["per_pod_power_management"]
    /\ call.overrides = EmptyDict
    /\ Has(Result, "per_pod_power_management", TRUE)
    /\ Has(Result, "power_mode", "default")

(***************************************************************************)
(* Properties of the NUMA check of validate.                               *)
(***************************************************************************)
NumaWarning == "Reserved CPUs not evenly divisible by NUMA nodes"
NumaRecommendation == "Consider allocating CPUs aligned to NUMA boundaries"

\* C19: with reserved_cpu_count present, the CPU sub-check of a returned
\* report has the NUMA-alignment warning if and only if numa_nodes_per_node
\* > 1 and reserved_cpu_count mod numa_nodes_per_node # 0, and the
\* NUMA-aligned-allocation recommendation if and only if numa_nodes_per_node
\* > 1; with one NUMA node it has neither.
C19_NumaWarningIffMisaligned ==
    (Returned /\ requirements.reserved_cpu_count # None) =>
        LET r == requirements.reserved_cpu_count[1]
        IN  /\ HasId(Checks.cpu.warnings, NumaWarning)
                 <=> (NumaNodes > 1 /\ r % NumaNodes # 0)
            /\ HasId(Checks.cpu.recommendations, NumaRecommendation)
                 <=> NumaNodes > 1
            /\ NumaNodes = 1
                 => /\ ~HasId(Report.warnings, NumaWarning)
                    /\ ~HasId(Report.recommendations, NumaRecommendation)

C19_Witness ==
    /\ Returned
    /\ requirements.reserved_cpu_count = Some(1)
    /\ NumaNodes = 2
    /\ HasId(Report.warnings, NumaWarning)
    /\ HasId(Report.recommendations, NumaRecommendation)

\* the request of the scenario on the mock hardware
WellSizedRequest ==
    /\ Called
    /\ hardware_info = TestHardware
    /\ requirements.workload_type = "5g-ran"
    /\ requirements.reserved_cpu_count = Some(8)
    /\ requirements.isolated_cpu_count = None
    /\ requirements.enable_rt_kernel
    /\ requirements.enable_dpdk
    /\ requirements.power_mode = "ultra-low-latency"

\* C20: on the mock hardware (48 CPUs, 2 NUMA nodes, hyperthreading), the
\* request {workload_type = 5g-ran, reserved_cpu_count = 8, enable_rt_kernel,
\* enable_dpdk, power_mode = ultra-low-latency} returns is_valid = true with
\* no errors and at least one NUMA-related recommendation, although it
\* carries warnings.
C20_WellSizedRequestIsAccepted ==
    WellSizedRequest =>
        /\ validation.raised = ""
        /\ Report.is_valid = TRUE
        /\ Report.errors = <<>>
        /\ Report.overall_status = StatusValid
        /\ HasId(Report.recommendations, NumaRecommendation)

C20_Witness ==
    /\ WellSizedRequest
    /\ Returned
    /\ Report.is_valid
    /\ Len(Report.warnings) > 0
    /\ HasId(Report.recommendations, NumaRecommendation)

(***************************************************************************)
(* Properties of conflict resolution within generate_parameters.           *)
(***************************************************************************)
\* the value of option k in the merged set, before conflict resolution: the
\* override when one is passed with a value, else the seeded value
Merged(k) ==
    IF Overridden(k) THEN call.overrides[k][1] ELSE SeededValue(k)[1]

\* C22: in every result of generate_parameters enable_dpdk truthy implies
\* topology_policy is single-numa-node or restricted: with DPDK on, any
\* other merged policy is rewritten to single-numa-node; the merged policy
\* is kept when DPDK is off or the policy is one of the two.
C22_DpdkImpliesNumaPolicy ==
    Generated =>
        /\ Flag(Result, "enable_dpdk")
              => Result["topology_policy"] \in {"single-numa-node", "restricted"}
        /\ IF /\ Flag(Result, "enable_dpdk")
              /\ Merged("topology_policy") \notin {"single-numa-node", "restricted"}
           THEN Result["topology_policy"] = "single-numa-node"
           ELSE Result["topology_policy"] = Merged("topology_policy")

C22_Witness ==
    /\ Generated
    /\ OverriddenAs("enable_dpdk", TRUE)
    /\ OverriddenAs("topology_policy", "best-effort")
    /\ Has(Result, "topology_policy", "single-numa-node")
    /\ Has(Result, "enable_dpdk", TRUE)

\* C23: after generate_parameters split_reserved_across_numa is true if and
\* only if it was true in the merged set or numa_nodes_per_node > 1 and
\* reserved_cpu_count >= 2 * numa_nodes_per_node; so conflict resolution
\* never turns it off, and an override of false becomes true when the
\* headroom condition holds.
C23_SplitIffRequestedOrHeadroom ==
    Generated =>
        LET headroom == /\ NumaNodes > 1
                        /\ Result["reserved_cpu_count"] >= 2 * NumaNodes
        IN  /\ Result["split_reserved_across_numa"]
                 <=> (Merged("split_reserved_across_numa") \/ headroom)
            /\ Merged("split_reserved_across_numa")
                 => Result["split_reserved_across_numa"]
            /\ (OverriddenAs("split_reserved_across_numa", FALSE) /\ headroom)
                 => Result["split_reserved_across_numa"]

C23_Witness ==
    /\ Generated
    /\ OverriddenAs("split_reserved_across_numa", FALSE)
    /\ NumaNodes = 2
    /\ Has(Result, "reserved_cpu_count", 4)
    /\ Has(Result, "split_reserved_across_numa", TRUE)

(***************************************************************************)
(* Frame and aggregation properties of validate.                           *)
(***************************************************************************)
DerivedRecommendation == "Isolated CPU count not specified. Will use"

C28_ValidIffNoErrors ==
    Returned =>
        /\ Report.is_valid <=> Report.errors = <<>>
        /\ Report.overall_status =
              (IF Report.is_valid
               THEN "Configuration is valid and feasible"
               ELSE "Configuration has issues that must be addressed")

C28_Witness ==
    /\ Returned
    /\ ~Report.is_valid
    /\ Len(Report.errors) = 1
    /\ Report.errors[1].id = SizingError
    /\ ~Checks.hugepages.is_valid
    /\ Report.overall_status = StatusInvalid

(***************************************************************************)
(* Capacity of the node and the heuristic.                                 *)
(***************************************************************************)
\* C29: whenever cpus_per_node is known (> 0) the heuristic's result does
\* not exceed cpus_per_node, so the isolated count cpus_per_node - result
\* is not negative.
C29_HeuristicWithinCapacity ==
    (pc = "reserved" /\ CpusPerNode > 0)
    => /\ reserved_cpus <= CpusPerNode
       /\ CpusPerNode - reserved_cpus >= 0

(***************************************************************************)
(* Properties of the server.                                               *)
(***************************************************************************)
Answered(tool) == response.tool = tool
CommandAnswered == Answered("generate_ppc_command") /\ response.success
Command == response.command
Parameters == response.parameters

\* the clauses of the command that start with the flag
Clauses(flag) == {i \in 1..Len(Command) : Command[i].id = flag}
Printed(flag) == Clauses(flag) # {}
Clause(flag) == Command[CHOOSE i \in Clauses(flag) : TRUE]

\* C21: the command build_command assembles always contains --mcp-name,
\* --profile-name, --reserved-cpu-count, --rt-kernel with true or false, and
\* --topology-manager-policy, each with the value of the parameter set;
\* it contains --disable-ht, --user-level-networking,
\* --split-reserved-cpus-across-numa and --per-pod-power-management each
\* exactly when the option is true, and --power-consumption-mode exactly
\* when power_mode is not default; the output redirection is its last
\* clause.
C21_CommandReflectsParameters ==
    CommandAnswered =>
        /\ \A f \in {"--mcp-name", "--profile-name", "--reserved-cpu-count",
                     "--rt-kernel", "--topology-manager-policy"} :
              Cardinality(Clauses(f)) = 1
        /\ Clause("--mcp-name").s = response.args.mcp_name
        /\ Some(Clause("--profile-name").s) = Parameters["profile_name"]
        /\ Clause("--reserved-cpu-count").n = <<Parameters["reserved_cpu_count"]>>
        /\ Clause("--rt-kernel").s =
              (IF Parameters["enable_rt_kernel"] THEN "true" ELSE "false")
        /\ Clause("--topology-manager-policy").s = Parameters["topology_policy"]
        /\ Printed("--disable-ht") <=> Parameters["disable_ht"]
        /\ Printed("--user-level-networking") <=> Parameters["enable_dpdk"]
        /\ Printed("--split-reserved-cpus-across-numa")
              <=> Parameters["split_reserved_across_numa"]
        /\ Printed("--per-pod-power-management")
              <=> Parameters["per_pod_power_management"]
        /\ Printed("--power-consumption-mode") <=> Parameters["power_mode"] # "default"
        /\ Printed("--power-consumption-mode")
              => Clause("--power-consumption-mode").s = Parameters["power_mode"]
        /\ Clauses("> performance-profile.yaml") = {Len(Command)}

C21_Witness ==
    /\ CommandAnswered
    /\ ~Parameters["enable_rt_kernel"]
    /\ Parameters["enable_dpdk"]
    /\ ~Parameters["per_pod_power_management"]
    /\ Parameters["power_mode"] = "ultra-low-latency"
    /\ Clause("--rt-kernel").s = "false"
    /\ Printed("--user-level-networking")
    /\ ~Printed("--per-pod-power-management")
    /\ Printed("--power-consumption-mode")
    /\ Command[Len(Command)] = Redirection

\* C25: validate_performance_requirements and generate_ppc_command answer
\* success = false with the "No hardware data available" error, running
\* neither validation nor synthesis, as long as no analyze_cluster_hardware
\* has succeeded; afterwards they answer from the hardware information (and
\* path) of the most recent analyze_cluster_hardware that succeeded.
C25_NoDataUntilAnalyzedThenLatest ==
    /\ Answered("validate_performance_requirements") =>
          IF analyzed = None
          THEN ~response.success /\ response.error = NoHardwareData
          ELSE response = validate_performance_requirements(analyzed[1].data, response.args)
    /\ Answered("generate_ppc_command") =>
          IF analyzed = None
          THEN ~response.success /\ response.error = NoHardwareData
          ELSE response = generate_ppc_command(analyzed[1].data, analyzed[1].path,
                                               catalog, response.args)

\* C26: _must_gather_data and _must_gather_path are either both unset or
\* both taken from one analyze_cluster_hardware call that succeeded, the
\* most recent one: a call that answers success = false leaves both as they
\* were.
C26_CacheIsTheLatestSuccessfulAnalysis ==
    IF analyzed = None
    THEN _must_gather_data = None /\ _must_gather_path = None
    ELSE /\ _must_gather_data = Some(analyzed[1].data)
         /\ _must_gather_path = Some(analyzed[1].path)

\* C27: when generate_ppc_command is called for a cataloged workload_type
\* with only workload_type and mcp_name supplied, the seven core options of
\* the answer equal the template's default_config up to conflict
\* resolution; for 5g-ran that is enable_rt_kernel, disable_ht and
\* enable_dpdk true and power_mode ultra-low-latency.
C27_DefaultsOnlyCallGivesTemplateDefaults ==
    (/\ CommandAnswered
     /\ response.args.keywords = EmptyDict
     /\ response.args.workload_type \in CatalogIds)
    => LET seeded == Put(TEMPLATES[response.args.workload_type].default_config,
                         "reserved_cpu_count", Parameters["reserved_cpu_count"])
           expected == _adjust_parameters(Summary(_must_gather_data[1]), seeded)
       IN  /\ \A k \in CoreOptions : Parameters[k] = expected[k]
           /\ response.args.workload_type = "5g-ran"
              => /\ Parameters["enable_rt_kernel"]
                 /\ Parameters["disable_ht"]
                 /\ Parameters["enable_dpdk"]
                 /\ Parameters["power_mode"] = "ultra-low-latency"

====
